---- MODULE Spec2Model ----
(***************************************************************************)
(* Kernel archetypal analysis (class Metacells, src/metacells_ad.py):      *)
(* the fit driver, the two Frank-Wolfe updates, the greedy column-subset   *)
(* initialiser, the residual and the label extraction.                     *)
(*                                                                         *)
(* Numbers.  The program computes in floating point; the model computes    *)
(* the same expressions exactly, over the rationals.  A dense matrix of    *)
(* the solver is a record [m |-> integer numerators, d |-> one positive    *)
(* denominator for the whole matrix]; the kernel is an integer matrix; a   *)
(* scalar of the greedy initialiser is a reduced fraction <<num, den>>.    *)
(* Indices are 1-based here and 0-based in the source.                     *)
(***************************************************************************)
EXTENDS Integers, Sequences, FiniteSets, TLC

(***************************************************************************)
(* Bounds of the model.                                                    *)
(***************************************************************************)
\* number of points of the generated kernels
N == 3
\* largest max_iter (inner Frank-Wolfe iterations per update)
MaxIter == 2
\* largest n_iter (outer rounds)
MaxOuter == 2

\* 1 / 1e-6, the floor of the pivot's norm in the greedy initialiser
EpsInv == 1000000

(***************************************************************************)
(* Integer matrices: a sequence of rows.                                   *)
(***************************************************************************)
Rows(M) == Len(M)
Cols(M) == IF Len(M) = 0 THEN 0 ELSE Len(M[1])

RECURSIVE SumTo(_, _)
SumTo(f, n) == IF n = 0 THEN 0 ELSE f[n] + SumTo(f, n - 1)

\* arrays held as values, every entry computed once: a tuple, and a tuple of tuples
Vector(f) == f \o <<>>
Array(M) == Vector([i \in 1..Len(M) |-> Vector(M[i])])

Transpose(M) == Array([j \in 1..Cols(M) |-> [i \in 1..Rows(M) |-> M[i][j]]])

\* X @ Y (the shapes agree where it is used: the callers raise otherwise)
MatMul(X, Y) ==
    Array([i \in 1..Rows(X) |->
        [j \in 1..Cols(Y) |-> SumTo([l \in 1..Rows(Y) |-> X[i][l] * Y[l][j]], Rows(Y))]])

Trace(M) == SumTo([i \in 1..Rows(M) |-> M[i][i]], Rows(M))

\* e = zeros((r, c)); e[idx, arange(c)] = 1
OneHot(r, c, idx) == [i \in 1..r |-> [j \in 1..c |-> IF idx[j] = i THEN 1 ELSE 0]]

\* a variant of the argmin below: the last row holding the column's minimum
ArgMinColLast(G, j) ==
    CHOOSE i \in 1..Rows(G) :
        /\ \A l \in 1..Rows(G) : G[i][j] <= G[l][j]
        /\ \A l \in (i + 1)..Rows(G) : G[l][j] > G[i][j]

\* np.argmin(G, axis=0)[j]: the first row holding the column's minimum
ArgMinCol(G, j) ==
    CHOOSE i \in 1..Rows(G) :
        /\ \A l \in 1..Rows(G) : G[i][j] <= G[l][j]
        /\ \A l \in 1..(i - 1) : G[l][j] > G[i][j]

\* np.argmax(T, axis=0)[j]: the first row holding the column's maximum
ArgMaxCol(T, j) ==
    CHOOSE i \in 1..Rows(T) :
        /\ \A l \in 1..Rows(T) : T[i][j] >= T[l][j]
        /\ \A l \in 1..(i - 1) : T[l][j] < T[i][j]

(***************************************************************************)
(* Dense matrices [m, d]: the value of entry (i, j) is m[i][j] / d.        *)
(***************************************************************************)
None == [m |-> <<>>, d |-> 0]
Dense(M) == [m |-> M, d |-> 1]

\* equality of values (two representations of one matrix differ in d)
SameMatrix(X, Y) ==
    /\ Rows(X.m) = Rows(Y.m)
    /\ Cols(X.m) = Cols(Y.m)
    /\ \A i \in 1..Rows(X.m) : \A j \in 1..Cols(X.m) : X.m[i][j] * Y.d = Y.m[i][j] * X.d

\* every column has nonnegative entries that sum to 1
ColumnStochastic(X) ==
    /\ X.d > 0
    /\ \A j \in 1..Cols(X.m) :
        /\ \A i \in 1..Rows(X.m) : X.m[i][j] >= 0
        /\ SumTo([i \in 1..Rows(X.m) |-> X.m[i][j]], Rows(X.m)) = X.d

(***************************************************************************)
(* The Frank-Wolfe updates, _updateA and _updateB.                         *)
(***************************************************************************)
\* a variant of the restart below: the A handed in is kept when it fits
RestartAWarm(A, B) ==
    IF Rows(A.m) = Cols(B.m) /\ Cols(A.m) = Rows(B.m) /\ A.d > 0
    THEN A
    ELSE Dense([i \in 1..Cols(B.m) |-> [j \in 1..Rows(B.m) |-> IF i = 1 THEN 1 ELSE 0]])

\* A = np.zeros((k, n)); A[0, :] = 1.  -- the A handed in is discarded
RestartA(A, B) ==
    Dense([i \in 1..Cols(B.m) |-> [j \in 1..Rows(B.m) |-> IF i = 1 THEN 1 ELSE 0]])

\* B = np.zeros((n, k)); B[0, :] = 1.  -- the B handed in is discarded
RestartB(A, B) ==
    Dense([i \in 1..Cols(A.m) |-> [j \in 1..Rows(A.m) |-> IF i = 1 THEN 1 ELSE 0]])

\* t2 = (K @ B).T and t1 = t2 @ B; t2 has denominator B.d, t1 has B.d^2
PrecomputeA(Kern, B) ==
    LET t2 == Transpose(MatMul(Kern, B.m))
    IN  [t1 |-> MatMul(t2, B.m), t2 |-> t2, d |-> B.d]

\* t1 = A @ A.T and t2 = K @ A.T; t2 has denominator A.d, t1 has A.d^2
PrecomputeB(Kern, A) ==
    [t1 |-> MatMul(A.m, Transpose(A.m)), t2 |-> MatMul(Kern, Transpose(A.m)), d |-> A.d]

\* G = 2. * (t1 @ A - t2), as numerators over the positive denominator pre.d^2 * X.d
GradientA(X, pre) ==
    LET P == MatMul(pre.t1, X.m)
    IN  Array([i \in 1..Rows(X.m) |->
            [j \in 1..Cols(X.m) |-> 2 * (P[i][j] - pre.t2[i][j] * pre.d * X.d)]])

\* G = 2. * (K @ B @ t1 - t2), as numerators over the positive denominator pre.d^2 * X.d
GradientB(Kern, X, pre) ==
    LET P == MatMul(MatMul(Kern, X.m), pre.t1)
    IN  Array([i \in 1..Rows(X.m) |->
            [j \in 1..Cols(X.m) |-> 2 * (P[i][j] - pre.t2[i][j] * pre.d * X.d)]])

\* amins = np.argmin(G, axis=0)
ArgMins(G, X) == Vector([j \in 1..Cols(X.m) |-> ArgMinCol(G, j)])

\* a variant of the step below: X += 2. / (t + 2.) * e, the iterate not shrunk
FrankWolfeStepNoShrink(X, amins, t) ==
    [m |-> Array([i \in 1..Rows(X.m) |->
              [j \in 1..Cols(X.m) |->
                  (t + 2) * X.m[i][j] + 2 * X.d * (IF amins[j] = i THEN 1 ELSE 0)]]),
     d |-> (t + 2) * X.d]

\* X += 2. / (t + 2.) * (e - X), e one-hot at amins:
\* (m/d) + 2/(t+2) * (e - m/d) = (t*m + 2*d*e) / ((t+2)*d)
FrankWolfeStep(X, amins, t) ==
    [m |-> Array([i \in 1..Rows(X.m) |->
              [j \in 1..Cols(X.m) |->
                  t * X.m[i][j] + 2 * X.d * (IF amins[j] = i THEN 1 ELSE 0)]]),
     d |-> (t + 2) * X.d]

\* a variant of the loop test below: one iteration more
InnerLoopRunsOneMore(t, maxIter) == t <= maxIter

\* while t < self.max_iter
InnerLoopRuns(t, maxIter) == t < maxIter

\* the whole of _updateA(A, B), for a B with as many rows as the kernel
RECURSIVE IterateA(_, _, _, _)
IterateA(X, pre, t, maxIter) ==
    IF InnerLoopRuns(t, maxIter)
    THEN IterateA(FrankWolfeStep(X, ArgMins(GradientA(X, pre), X), t), pre, t + 1, maxIter)
    ELSE X

UpdateA(Kern, A, B, maxIter) == IterateA(RestartA(A, B), PrecomputeA(Kern, B), 0, maxIter)

\* the whole of _updateB(A, B)
RECURSIVE IterateB(_, _, _, _, _)
IterateB(Kern, X, pre, t, maxIter) ==
    IF InnerLoopRuns(t, maxIter)
    THEN IterateB(Kern, FrankWolfeStep(X, ArgMins(GradientB(Kern, X, pre), X), t),
                  pre, t + 1, maxIter)
    ELSE X

UpdateB(Kern, A, B, maxIter) ==
    IterateB(Kern, RestartB(A, B), PrecomputeB(Kern, A), 0, maxIter)

(***************************************************************************)
(* Scalars of the greedy initialiser: reduced fractions <<num, den>>,      *)
(* den > 0.                                                                *)
(***************************************************************************)
RECURSIVE Gcd(_, _)
Gcd(a, b) == IF b = 0 THEN a ELSE Gcd(b, a % b)

Abs(x) == IF x < 0 THEN -x ELSE x

Frac(a, b) ==
    LET g == Gcd(Abs(a), Abs(b))
    IN  IF a = 0 THEN <<0, 1>>
        ELSE IF b < 0 THEN <<(-a) \div g, (-b) \div g>> ELSE <<a \div g, b \div g>>

RInt(a) == <<a, 1>>
RAdd(x, y) == Frac(x[1] * y[2] + y[1] * x[2], x[2] * y[2])
RSub(x, y) == Frac(x[1] * y[2] - y[1] * x[2], x[2] * y[2])
RMul(x, y) == Frac(x[1] * y[1], x[2] * y[2])
RDiv(x, y) == Frac(x[1] * y[2], x[2] * y[1])
RLess(x, y) == x[1] * y[2] < y[1] * x[2]

RECURSIVE RSumTo(_, _)
RSumTo(f, n) == IF n = 0 THEN <<0, 1>> ELSE RAdd(f[n], RSumTo(f, n - 1))

CeilDiv(a, b) == (a + b - 1) \div b

(***************************************************************************)
(* _greedy_initialize_archetypes.                                          *)
(*                                                                         *)
(* A row of omega is o = delta / max(sqrt(delta[p]), 1e-6).  Every use of  *)
(* omega in the source is a product of two entries of one row, and         *)
(*     o[i] * o[l] = delta[i] * delta[l] / max(delta[p], 1e-12),           *)
(* so a row is kept as [delta, s2, floored] with s2 = delta[p], and the    *)
(* square root is never taken.  The rows of omega not yet written are      *)
(* zero in the source and contribute nothing; they are absent here.        *)
(* Where the exact scores f / g of several points are equal, the pivot is  *)
(* the first of them; the source's argmax over floating-point scores is    *)
(* the same point whenever its arithmetic is exact (integer kernels whose  *)
(* pivots have delta[p] = 1).                                              *)
(***************************************************************************)
\* sqrt(x) < 1e-6, that is x[1] * 10^12 < x[2], for a fraction x >= 0
BelowFloor(x) == x[1] < CeilDiv(CeilDiv(x[2], EpsInv), EpsInv)

\* omega[r, i] * omega[r, l] for the row w
Outer(w, i, l) ==
    LET dd == RMul(w.delta[i], w.delta[l])
    IN  IF w.floored
        THEN (IF dd[1] = 0 THEN dd ELSE <<dd[1] * EpsInv * EpsInv, dd[2]>>)
        ELSE RDiv(dd, w.s2)

\* f = (K*K).sum(axis=0) and g = K.diagonal()
GreedyStart(Kern) ==
    LET n == Rows(Kern)
    IN  [f |-> [i \in 1..n |-> RInt(SumTo([l \in 1..n |-> Kern[l][i] * Kern[l][i]], n))],
         g |-> [i \in 1..n |-> RInt(Kern[i][i])],
         omega |-> <<>>,
         centers |-> <<>>]

\* p = np.argmax(f / g): the first point of maximal score (g > 0: the
\* diagonal of the kernels modelled is positive and g never decreases)
Pivot(f, g) ==
    CHOOSE p \in 1..Len(f) :
        /\ \A l \in 1..Len(f) : ~RLess(RDiv(f[p], g[p]), RDiv(f[l], g[l]))
        /\ \A l \in 1..(p - 1) : RLess(RDiv(f[l], g[l]), RDiv(f[p], g[p]))

\* one pass of the loop `for j in range(k)`
GreedyRoundOf(Kern, s) ==
    LET n == Rows(Kern)
        j == Len(s.omega)
        p == Pivot(s.f, s.g)
        \* delta = K[:, p] - sum_r omega[r, p] * omega[r, :]
        delta0 == Vector([i \in 1..n |->
                     RSub(RInt(Kern[i][p]),
                          RSumTo([r \in 1..j |-> Outer(s.omega[r], p, i)], j))])
        \* delta[p] = max(0, delta[p])
        delta == [delta0 EXCEPT ![p] = IF RLess(delta0[p], <<0, 1>>) THEN <<0, 1>> ELSE delta0[p]]
        w == [delta |-> delta, s2 |-> delta[p], floored |-> BelowFloor(delta[p])]
        hadamard == Vector([i \in 1..n |-> Outer(w, i, i)])
        squareNorm == RSumTo(hadamard, n)
        term1 == [i \in 1..n |-> RMul(squareNorm, hadamard[i])]
        \* o[i] * (K @ o)[i]
        oKo == [i \in 1..n |-> RSumTo([l \in 1..n |-> RMul(RInt(Kern[i][l]), Outer(w, i, l))], n)]
        \* o[i] * pl[i], pl = sum_r dot(omega_r, o) * omega_r
        opl == [i \in 1..n |->
                  RSumTo([r \in 1..j |->
                            RSumTo([l \in 1..n |-> RMul(Outer(s.omega[r], l, i), Outer(w, l, i))], n)],
                         j)]
        term2 == [i \in 1..n |-> RSub(oKo[i], opl[i])]
    IN  [f |-> Vector([i \in 1..n |-> RAdd(s.f[i], RSub(term1[i], RMul(RInt(2), term2[i])))]),
         g |-> Vector([i \in 1..n |-> RAdd(s.g[i], hadamard[i])]),
         omega |-> Append(s.omega, w),
         centers |-> Append(s.centers, p)]

\* B = np.zeros((n, k)); B[centers, np.arange(k)] = 1.
GreedyResult(Kern, s) == Dense(OneHot(Rows(Kern), Len(s.centers), s.centers))

(***************************************************************************)
(* _residuals, binarize_matrix and get_labels.                             *)
(***************************************************************************)
\* a variant of the residual below: term3 left out
ResidualsNoCross(Kern, A, B) ==
    Frac(Rows(Kern) * A.d * A.d * B.d * B.d
           - 2 * Trace(MatMul(MatMul(A.m, Kern), B.m)) * A.d * B.d,
         A.d * A.d * B.d * B.d)

\* term1 - 2. * term2 + term3 with term1 = K.shape[0],
\* term2 = tr(A @ K @ B) and term3 = tr((A @ K @ A.T) @ (B.T @ B)):
\* a fraction over the denominator (A.d * B.d)^2
Residuals(Kern, A, B) ==
    LET term2 == Trace(MatMul(MatMul(A.m, Kern), B.m))
        term3 == Trace(MatMul(MatMul(MatMul(A.m, Kern), Transpose(A.m)),
                              MatMul(Transpose(B.m), B.m)))
    IN  Frac(Rows(Kern) * A.d * A.d * B.d * B.d - 2 * term2 * A.d * B.d + term3,
             A.d * A.d * B.d * B.d)

\* the rows that binarize_matrix sets in each column of T
Binarize(T) == [j \in 1..Cols(T.m) |-> ArgMaxCol(T.m, j)]

\* the missing value that Series.map gives a key absent from the dictionary
NaN == 0

\* get_labels: labels[i] is the archetype of point i's largest entry of A_;
\* is_MC[i] is B_.sum(1)[i] != 0; di sends a label to the last centre point
\* that carries it; a point's metacell is di[labels[i]]
GetLabels(A, B) ==
    LET n == Cols(A.m)
        labels == Binarize(A)
        isMC == [i \in 1..n |-> SumTo(B.m[i], Cols(B.m)) # 0]
        keys == {labels[i] : i \in {l \in 1..n : isMC[l]}}
        di == [c \in keys |->
                 CHOOSE i \in 1..n :
                     /\ isMC[i] /\ labels[i] = c
                     /\ \A l \in (i + 1)..n : ~(isMC[l] /\ labels[l] = c)]
    IN  [i \in 1..n |-> IF labels[i] \in keys THEN di[labels[i]] ELSE NaN]

(***************************************************************************)
(* The kernel.  build_graph.MetacellGraph(...).rbf() is not part of the    *)
(* source at hand: a kernel is any Gram matrix of N feature vectors drawn  *)
(* from Features (symmetric, positive semidefinite, positive diagonal),    *)
(* or the 4 x 4 identity.                                                  *)
(***************************************************************************)
Features == {<<1, 0>>, <<0, 1>>, <<1, 1>>}

Gram(x) ==
    [i \in 1..Len(x) |->
        [j \in 1..Len(x) |-> SumTo([c \in 1..Len(x[i]) |-> x[i][c] * x[j][c]], Len(x[i]))]]

Identity4 == <<<<1, 0, 0, 0>>, <<0, 1, 0, 0>>, <<0, 0, 1, 0>>, <<0, 0, 0, 1>>>>

Kernels == {Gram(x) : x \in [1..N -> Features]} \cup {Identity4}

\* palantir's max-min sampling is external: its result is k distinct points,
\* here the k points from the first point on or from the last point on
WaypointChoices(n, k) ==
    {[j \in 1..k |-> ((s + j - 2) % n) + 1] : s \in {1, n}}

\* the B0 a caller may hand to fit: one-hot columns on descending points, of
\* the right shape, one row short, or one column too many
Descending(r, c) == Dense(OneHot(r, c, [j \in 1..c |-> r - ((j - 1) % r)]))

ProvidedB0s(n, k) == {Descending(n, k), Descending(n - 1, k), Descending(n, k + 1)}

\* fixed matrices a caller may pass as true_A and true_B
TruthA(n, k) == Dense([i \in 1..k |-> [j \in 1..n |-> IF ((j - 1) % k) + 1 = i THEN 1 ELSE 0]])
TruthB(n, k) == Dense(OneHot(n, k, [j \in 1..k |-> j]))

(***************************************************************************)
(* State.                                                                  *)
(***************************************************************************)
VARIABLES
    ad,        \* the data: whether obsm holds build_kernel_on, and the kernel rbf() builds from it
    k,         \* self.k
    max_iter,  \* self.max_iter
    true_A,    \* self.true_A (None or a matrix)
    true_B,    \* self.true_B
    K,         \* self.K (<<>> while unset)
    B0,        \* self.B0
    A_,        \* self.A_
    B_,        \* self.B_
    Z_,        \* self.Z_
    Metacell,  \* self.ad.obs['Metacell'] (<<>> while unset)
    pc,        \* where the call in progress stands
    args,      \* the arguments of the fit in progress: n_iter, initialize_waypoint, B0
    A,         \* _fit's local A
    B,         \* _fit's local B
    it,        \* _fit's loop variable
    step,      \* the locals of the _updateA / _updateB in progress
    greedy,    \* the locals of _greedy_initialize_archetypes
    resid,     \* the arguments and the value of the _residuals call made since the last fit
    hist       \* history: what the calls so far did

vars == <<ad, k, max_iter, true_A, true_B, K, B0, A_, B_, Z_, Metacell, pc, args,
          A, B, it, step, greedy, resid, hist>>

NoStep == [X |-> None, t |-> 0, pre |-> <<>>, G |-> <<>>, amins |-> <<>>]
NoGreedy == [f |-> <<>>, g |-> <<>>, omega |-> <<>>, centers |-> <<>>]
NoArgs == [n_iter |-> 0, initialize_waypoint |-> TRUE, B0 |-> None]
NoResid == [A |-> None, B |-> None, E |-> <<0, 0>>]
NoHist ==
    [fits |-> 0,          \* calls of fit so far
     aSteps |-> 0,        \* calls of _updateA in this fit
     bSteps |-> 0,        \* calls of _updateB in this fit
     inner |-> 0,         \* inner iterations in this fit
     madeA |-> -1,        \* the round whose A-step made the local A (-1: none)
     madeB |-> -1,        \* the round whose B-step made the local B (-1: none)
     readB |-> -1,        \* madeB of the B the last A-step was given
     readA |-> -1,        \* madeA of the A the last B-step was given
     first |-> [A |-> None, B |-> None, labels |-> <<>>, n_iter |-> 0]]  \* the first fit's result

\* __init__: the constructor raises when the key is absent from ad.obsm
Init ==
    /\ ad \in [hasKey : BOOLEAN, kernel : Kernels]
    /\ k \in 0..(Rows(ad.kernel) + 1)
    /\ max_iter \in 1..MaxIter
    /\ \/ true_A = None /\ true_B = None
       \/ /\ k \in 1..Rows(ad.kernel)
          /\ true_A \in {None, TruthA(Rows(ad.kernel), k)}
          /\ true_B \in {None, TruthB(Rows(ad.kernel), k)}
          /\ ~(true_A = None /\ true_B = None)
    /\ ad.hasKey \/ (k = 1 /\ max_iter = 1 /\ true_A = None /\ true_B = None)
    /\ pc = IF ad.hasKey THEN "new" ELSE "raised"
    /\ K = <<>> /\ B0 = None /\ A_ = None /\ B_ = None /\ Z_ = None /\ Metacell = <<>>
    /\ args = NoArgs /\ A = None /\ B = None /\ it = 0
    /\ step = NoStep /\ greedy = NoGreedy /\ resid = NoResid /\ hist = NoHist

(***************************************************************************)
(* fit / _fit.                                                             *)
(***************************************************************************)
\* the (initialize_waypoint, B0) a caller may pass; both are ignored when
\* true_B is set, and the external sampler is asked for 1..n points only
InitialisersOf(n) ==
    IF true_B # None THEN {<<TRUE, None>>}
    ELSE {<<FALSE, None>>}
         \cup (IF k \in 1..n THEN {<<TRUE, None>>} ELSE {})
         \cup {<<TRUE, b>> : b \in ProvidedB0s(n, k)}

\* lines 284-292: the kernel is built and stored before anything is looked at
FitCall(n_iter, initialize_waypoint, b0) ==
    /\ K' = ad.kernel
    /\ args' = [n_iter |-> n_iter, initialize_waypoint |-> initialize_waypoint, B0 |-> b0]
    /\ A' = None /\ B' = None /\ it' = 0 /\ step' = NoStep /\ greedy' = NoGreedy
    /\ hist' = [hist EXCEPT !.fits = @ + 1, !.aSteps = 0, !.bSteps = 0, !.inner = 0,
                            !.madeA = -1, !.madeB = -1, !.readA = -1, !.readB = -1]
    /\ pc' = "initB"
    /\ resid' = NoResid
    /\ UNCHANGED <<ad, k, max_iter, true_A, true_B, B0, A_, B_, Z_, Metacell>>

Fit ==
    /\ pc = "new"
    /\ \E n_iter \in 0..MaxOuter : \E i \in InitialisersOf(Rows(ad.kernel)) :
           FitCall(n_iter, i[1], i[2])

\* a second fit on the fitted object: fit(n_iter=0, B0=self.B_)
FitAgain ==
    /\ pc = "done"
    /\ hist.fits = 1
    /\ FitCall(0, TRUE, B_)

\* lines 294-299
UseProvidedB0 ==
    /\ pc = "initB" /\ true_B = None /\ args.B0 # None
    /\ B' = args.B0 /\ B0' = args.B0
    /\ pc' = "initA"
    /\ UNCHANGED <<ad, k, max_iter, true_A, true_B, K, A_, B_, Z_, Metacell, args, A, it,
                   step, greedy, resid, hist>>

\* lines 301-302 and 305, _waypoint_initialize_archetypes (lines 142-152)
WaypointInit ==
    /\ pc = "initB" /\ true_B = None /\ args.B0 = None /\ args.initialize_waypoint
    /\ \E waypt_ix \in WaypointChoices(Rows(K), k) :
           /\ B' = Dense(OneHot(Rows(K), k, waypt_ix))
           /\ B0' = Dense(OneHot(Rows(K), k, waypt_ix))
    /\ pc' = "initA"
    /\ UNCHANGED <<ad, k, max_iter, true_A, true_B, K, A_, B_, Z_, Metacell, args, A, it,
                   step, greedy, resid, hist>>

\* lines 303-304 and 164-188
GreedyBegin ==
    /\ pc = "initB" /\ true_B = None /\ args.B0 = None /\ ~args.initialize_waypoint
    /\ greedy' = GreedyStart(K)
    /\ pc' = "greedy"
    /\ UNCHANGED <<ad, k, max_iter, true_A, true_B, K, B0, A_, B_, Z_, Metacell, args, A, B,
                   it, step, resid, hist>>

\* lines 191-232
GreedyRound ==
    /\ pc = "greedy" /\ Len(greedy.centers) < k
    /\ greedy' = GreedyRoundOf(K, greedy)
    /\ UNCHANGED <<ad, k, max_iter, true_A, true_B, K, B0, A_, B_, Z_, Metacell, pc, args,
                   A, B, it, step, resid, hist>>

\* lines 237-240 and 305
GreedyReturn ==
    /\ pc = "greedy" /\ ~(Len(greedy.centers) < k)
    /\ B' = GreedyResult(K, greedy) /\ B0' = GreedyResult(K, greedy)
    /\ pc' = "initA"
    /\ UNCHANGED <<ad, k, max_iter, true_A, true_B, K, A_, B_, Z_, Metacell, args, A, it,
                   step, greedy, resid, hist>>

\* lines 306-309
UseTrueB ==
    /\ pc = "initB" /\ true_B # None
    /\ B' = true_B
    /\ pc' = "initA"
    /\ UNCHANGED <<ad, k, max_iter, true_A, true_B, K, B0, A_, B_, Z_, Metacell, args, A, it,
                   step, greedy, resid, hist>>

\* a variant of the start matrix below: np.zeros((k, n)) in place of np.eye(k, n)
WarmStartZeros(kk, n) == Dense([i \in 1..kk |-> [j \in 1..n |-> IF i = 1 THEN 1 ELSE 0]])

\* A = np.eye(k, n); A[0, :] = 1.
WarmStart(kk, n) == Dense([i \in 1..kk |-> [j \in 1..n |-> IF i = 1 \/ i = j THEN 1 ELSE 0]])

\* lines 311-312; with k = 0 the assignment to row 0 raises IndexError
InitA ==
    /\ pc = "initA"
    /\ IF k = 0
       THEN pc' = "raised" /\ UNCHANGED <<A, it>>
       ELSE A' = WarmStart(k, Rows(K)) /\ it' = 0 /\ pc' = "loop"
    /\ UNCHANGED <<ad, k, max_iter, true_A, true_B, K, B0, A_, B_, Z_, Metacell, args, B,
                   step, greedy, resid, hist>>

\* a variant of the loop test below: one round fewer
OuterLoopRunsShort(i, n_iter) == i < n_iter - 1

\* for it in range(n_iter)
OuterLoopRuns(i, n_iter) == i < n_iter

\* lines 316-317 and 42-52; K @ B raises ValueError unless B has n rows
BeginA ==
    /\ pc = "loop" /\ OuterLoopRuns(it, args.n_iter) /\ true_A = None
    /\ IF Rows(B.m) # Cols(K)
       THEN pc' = "raised" /\ UNCHANGED <<step, hist>>
       ELSE /\ step' = [NoStep EXCEPT !.X = RestartA(A, B), !.pre = PrecomputeA(K, B)]
            /\ hist' = [hist EXCEPT !.aSteps = @ + 1, !.readB = hist.madeB]
            /\ pc' = "updateA"
    /\ UNCHANGED <<ad, k, max_iter, true_A, true_B, K, B0, A_, B_, Z_, Metacell, args, A, B,
                   it, greedy, resid>>

\* lines 318-320
TakeTrueA ==
    /\ pc = "loop" /\ OuterLoopRuns(it, args.n_iter) /\ true_A # None
    /\ A' = true_A
    /\ pc' = "afterA"
    /\ UNCHANGED <<ad, k, max_iter, true_A, true_B, K, B0, A_, B_, Z_, Metacell, args, B, it,
                   step, greedy, resid, hist>>

\* lines 55-68
IterA ==
    /\ pc = "updateA" /\ InnerLoopRuns(step.t, max_iter)
    /\ LET G == GradientA(step.X, step.pre)
           amins == ArgMins(G, step.X)
       IN  step' = [step EXCEPT !.G = G, !.amins = amins,
                                !.X = FrankWolfeStep(step.X, amins, step.t), !.t = @ + 1]
    /\ hist' = [hist EXCEPT !.inner = @ + 1]
    /\ UNCHANGED <<ad, k, max_iter, true_A, true_B, K, B0, A_, B_, Z_, Metacell, pc, args,
                   A, B, it, greedy, resid>>

\* line 70 and the assignment of line 317
ReturnA ==
    /\ pc = "updateA" /\ ~InnerLoopRuns(step.t, max_iter)
    /\ A' = step.X
    /\ hist' = [hist EXCEPT !.madeA = it]
    /\ pc' = "afterA"
    /\ UNCHANGED <<ad, k, max_iter, true_A, true_B, K, B0, A_, B_, Z_, Metacell, args, B, it,
                   step, greedy, resid>>

\* lines 322-323 and 82-94
BeginB ==
    /\ pc = "afterA" /\ true_B = None
    /\ step' = [NoStep EXCEPT !.X = RestartB(A, B), !.pre = PrecomputeB(K, A)]
    /\ hist' = [hist EXCEPT !.bSteps = @ + 1, !.readA = hist.madeA]
    /\ pc' = "updateB"
    /\ UNCHANGED <<ad, k, max_iter, true_A, true_B, K, B0, A_, B_, Z_, Metacell, args, A, B,
                   it, greedy, resid>>

\* lines 324-325: B stays, the round ends
SkipB ==
    /\ pc = "afterA" /\ true_B # None
    /\ it' = it + 1
    /\ pc' = "loop"
    /\ UNCHANGED <<ad, k, max_iter, true_A, true_B, K, B0, A_, B_, Z_, Metacell, args, A, B,
                   step, greedy, resid, hist>>

\* lines 97-110
IterB ==
    /\ pc = "updateB" /\ InnerLoopRuns(step.t, max_iter)
    /\ LET G == GradientB(K, step.X, step.pre)
           amins == ArgMins(G, step.X)
       IN  step' = [step EXCEPT !.G = G, !.amins = amins,
                                !.X = FrankWolfeStep(step.X, amins, step.t), !.t = @ + 1]
    /\ hist' = [hist EXCEPT !.inner = @ + 1]
    /\ UNCHANGED <<ad, k, max_iter, true_A, true_B, K, B0, A_, B_, Z_, Metacell, pc, args,
                   A, B, it, greedy, resid>>

\* line 112 and the assignment of line 323; the round ends
ReturnB ==
    /\ pc = "updateB" /\ ~InnerLoopRuns(step.t, max_iter)
    /\ B' = step.X
    /\ hist' = [hist EXCEPT !.madeB = it]
    /\ it' = it + 1
    /\ pc' = "loop"
    /\ UNCHANGED <<ad, k, max_iter, true_A, true_B, K, B0, A_, B_, Z_, Metacell, args, A,
                   step, greedy, resid>>

\* lines 331-338: A_ and B_ are stored, then B.T @ K raises ValueError unless
\* B has n rows, then the labels are stored
Finish ==
    /\ pc = "loop" /\ ~OuterLoopRuns(it, args.n_iter)
    /\ A_' = A /\ B_' = B
    /\ IF Rows(B.m) # Rows(K)
       THEN pc' = "raised" /\ UNCHANGED <<Z_, Metacell, hist>>
       ELSE /\ Z_' = [m |-> MatMul(Transpose(B.m), K), d |-> B.d]
            /\ Metacell' = GetLabels(A, B)
            /\ hist' = IF hist.fits = 1
                       THEN [hist EXCEPT !.first = [A |-> A, B |-> B, labels |-> GetLabels(A, B),
                                                    n_iter |-> args.n_iter]]
                       ELSE hist
            /\ pc' = "done"
    /\ UNCHANGED <<ad, k, max_iter, true_A, true_B, K, B0, args, A, B, it, step, greedy, resid>>

\* _residuals(self.A_, self.B_) on the fitted object; the product of the two
\* k x k factors raises unless A_ has as many rows as B_ has columns
CallResiduals ==
    /\ pc = "done" /\ resid = NoResid
    /\ Rows(A_.m) = Cols(B_.m)
    /\ resid' = [A |-> A_, B |-> B_, E |-> Residuals(K, A_, B_)]
    /\ UNCHANGED <<ad, k, max_iter, true_A, true_B, K, B0, A_, B_, Z_, Metacell, pc, args,
                   A, B, it, step, greedy, hist>>

Next ==
    \/ Fit \/ FitAgain
    \/ UseProvidedB0 \/ WaypointInit \/ GreedyBegin \/ GreedyRound \/ GreedyReturn \/ UseTrueB
    \/ InitA
    \/ BeginA \/ TakeTrueA \/ IterA \/ ReturnA
    \/ BeginB \/ SkipB \/ IterB \/ ReturnB
    \/ Finish
    \/ CallResiduals

Spec == Init /\ [][Next]_vars

(***************************************************************************)
(* Properties.                                                             *)
(***************************************************************************)
Fractional(X) ==
    \E i \in 1..Rows(X.m) : \E j \in 1..Cols(X.m) : 0 < X.m[i][j] /\ X.m[i][j] < X.d

\* C1: during and after every A-step and every B-step, after each inner
\* iteration, every column of the iterate is nonnegative and sums to 1.
C1_SimplexInvariant ==
    /\ pc \in {"updateA", "updateB"} => ColumnStochastic(step.X)
    /\ hist.madeA >= 0 => ColumnStochastic(A)
    /\ hist.madeB >= 0 => ColumnStochastic(B)

C1_Witness ==
    /\ pc = "updateB" /\ step.t = 2 /\ Fractional(step.X)
    /\ hist.madeA >= 0 /\ Fractional(A)

\* C2: the pivots the greedy initialiser has chosen are pairwise distinct,
\* for a symmetric positive-semidefinite kernel with at least k points of
\* positive diagonal.
C2_DistinctPivots ==
    (k <= Cardinality({i \in 1..Rows(K) : K[i][i] > 0}))
        => \A i, j \in 1..Len(greedy.centers) :
               i # j => greedy.centers[i] # greedy.centers[j]

\* a fit of a well-formed call, with nothing fixed by the caller
WellFormed ==
    /\ hist.fits >= 1
    /\ k \in 1..Rows(K)
    /\ args.B0 = None \/ (Rows(args.B0.m) = Rows(K) /\ Cols(args.B0.m) = k)

\* C3: after a fit every point has a defined metacell label, and the labels
\* that appear are those of the archetypes with a realised centre.
C3_LabelCoverage ==
    (pc = "done" /\ WellFormed /\ true_A = None /\ true_B = None)
        => \A i \in 1..Len(Metacell) : Metacell[i] # NaN

\* C4 (as stated): after fit(n_iter >= 1) and then fit(n_iter = 0, B0 = B_),
\* A_, B_ and the labels are those of the first fit.
C4_RoundTrip ==
    (pc = "done" /\ hist.fits = 2 /\ hist.first.n_iter >= 1)
        => /\ SameMatrix(A_, hist.first.A)
           /\ SameMatrix(B_, hist.first.B)
           /\ Metacell = hist.first.labels

\* C4 (amended): after fit(n_iter >= 1) and then fit(n_iter = 0, B0 = B_),
\* B_ is that of the first fit; A_ is the k x n start matrix of the driver
\* (row 0 all ones, ones on the diagonal), so A_ and the labels are those of
\* the first fit when there is a single archetype.
C4_RoundTripAmended ==
    (pc = "done" /\ hist.fits = 2 /\ hist.first.n_iter >= 1)
        => /\ SameMatrix(B_, hist.first.B)
           /\ A_.d = 1 /\ Rows(A_.m) = k /\ Cols(A_.m) = Rows(K)
           /\ \A i \in 1..k : \A j \in 1..Rows(K) :
                  A_.m[i][j] = IF i = 1 \/ i = j THEN 1 ELSE 0
           /\ (k = 1 /\ Cols(hist.first.B.m) = 1)
                  => SameMatrix(A_, hist.first.A) /\ Metacell = hist.first.labels

C4_Witness ==
    /\ pc = "done" /\ hist.fits = 2 /\ hist.first.n_iter >= 1
    /\ k >= 2 /\ ~SameMatrix(A_, hist.first.A) /\ Fractional(B_)

\* C5: with k <= 0, k > n or a B0 that is not n x k, fit raises before the
\* first outer round and leaves K, B0, A_, B_ and Z_ unset.
C5_RejectedUpFront ==
    (hist.fits >= 1 /\ ~WellFormed)
        => /\ pc \notin {"updateA", "afterA", "updateB", "done"}
           /\ pc = "raised" => (K = <<>> /\ B0 = None /\ A_ = None /\ B_ = None /\ Z_ = None)

UnitDiagonal(Kern) == \A i \in 1..Rows(Kern) : Kern[i][i] = 1

\* C6 (as stated): _residuals is >= 0 for column-stochastic A and B and any
\* positive-semidefinite kernel, whatever its diagonal.
C6_ResidualNonNegative ==
    (resid # NoResid /\ ColumnStochastic(resid.A) /\ ColumnStochastic(resid.B))
        => resid.E[1] >= 0

\* C6 (amended): _residuals is >= 0 for column-stochastic A and B and a
\* positive-semidefinite kernel whose diagonal is all ones.
C6_ResidualNonNegativeUnit ==
    (resid # NoResid /\ ColumnStochastic(resid.A) /\ ColumnStochastic(resid.B)
       /\ UnitDiagonal(K))
        => resid.E[1] >= 0

C6_Witness ==
    /\ resid # NoResid /\ ColumnStochastic(resid.A) /\ ColumnStochastic(resid.B)
    /\ UnitDiagonal(K) /\ Fractional(resid.A) /\ Fractional(resid.B)
    /\ resid.E[1] > 0

\* Scenario 2: the first A-step has returned, for the 4 x 4 identity kernel,
\* k = 2, max_iter = 1 and B0 one-hot at points 0 and 1
Scenario2 ==
    /\ K = Identity4 /\ k = 2 /\ max_iter = 1 /\ true_A = None /\ true_B = None
    /\ hist.fits = 1 /\ pc = "afterA" /\ it = 0
    /\ B = Dense(OneHot(4, 2, <<1, 2>>))

\* C7 (as stated): in Scenario 2 point 0 goes to archetype 0, point 1 to
\* archetype 1, and points 2 and 3 are ties that go to archetype 0.
C7_Scenario2 ==
    Scenario2
        => /\ Binarize(A) = <<1, 2, 1, 1>>
           /\ \A j \in 3..4 : step.G[1][j] = step.G[2][j]

\* C7 (amended): in Scenario 2 point 0 goes to archetype 0 (a tie, resolved
\* to the lowest index) and points 1, 2 and 3 go to archetype 1: at the
\* start matrix the gradient of archetype 0 is larger for each of them.
C7_Scenario2Amended ==
    Scenario2
        => /\ SameMatrix(A, Dense(<<<<1, 0, 0, 0>>, <<0, 1, 1, 1>>>>))
           /\ step.G[1][1] = step.G[2][1]
           /\ \A j \in 2..4 : step.G[1][j] > step.G[2][j]

C7_Witness == Scenario2 /\ args.B0 = None /\ ~args.initialize_waypoint

\* C8 (as stated): when a fit ends and no true_A was given, A_ is k x n and
\* each column is a probability vector, for any n_iter >= 0.
C8_ExposedSimplex ==
    (pc = "done" /\ true_A = None)
        => Rows(A_.m) = k /\ Cols(A_.m) = Rows(K) /\ ColumnStochastic(A_)

\* C8 (amended): when a fit with n_iter >= 1 ends and no true_A was given,
\* A_ has n columns, each a probability vector, and one row per column of
\* B_: k rows unless a B0 with another number of columns was handed in.
C8_ExposedSimplexAmended ==
    (pc = "done" /\ true_A = None /\ args.n_iter >= 1)
        => /\ Cols(A_.m) = Rows(K) /\ Rows(A_.m) = Cols(B_.m)
           /\ (args.B0 = None \/ Cols(args.B0.m) = k) => Rows(A_.m) = k
           /\ ColumnStochastic(A_)

C8_Witness ==
    /\ pc = "done" /\ true_A = None /\ args.n_iter >= 1 /\ hist.fits = 1
    /\ Fractional(A_) /\ Rows(A_.m) = k

\* matrices to hand to an update in place of the one it was given
Probes(r, c) ==
    {Dense([i \in 1..r |-> [j \in 1..c |-> IF i = r THEN 1 ELSE 0]])}

\* C9: the result of an A-step depends on K, B and max_iter only, not on the
\* A handed in, and that of a B-step on K, A and max_iter only; every argmin
\* is the lowest row that holds the column's minimum.
C9_RestartDeterminism ==
    /\ (pc = "afterA" /\ hist.madeA = it)
           => \A alt \in Probes(Cols(B.m), Rows(B.m)) \cup {A} :
                  UpdateA(K, alt, B, max_iter) = A
    /\ (pc = "loop" /\ it >= 1 /\ hist.madeB = it - 1)
           => \A alt \in Probes(Cols(A.m), Rows(A.m)) \cup {B} :
                  UpdateB(K, A, alt, max_iter) = B
    /\ (pc \in {"updateA", "updateB"} /\ step.t >= 1)
           => \A j \in 1..Len(step.amins) : \A i \in 1..Rows(step.G) :
                  /\ step.G[step.amins[j]][j] <= step.G[i][j]
                  /\ step.G[i][j] = step.G[step.amins[j]][j] => step.amins[j] <= i

C9_Witness ==
    /\ pc = "afterA" /\ hist.madeA = it /\ it = 1
    /\ \E j \in 1..Len(step.amins) : \E i \in 1..Rows(step.G) :
           i # step.amins[j] /\ step.G[i][j] = step.G[step.amins[j]][j]
    /\ Fractional(A) /\ Fractional(B)

\* some step of the fit in progress can be taken: the guards of the steps
CanStep ==
    \/ pc = "initB" /\ true_B = None /\ args.B0 # None
    \/ pc = "initB" /\ true_B = None /\ args.B0 = None /\ args.initialize_waypoint
          /\ WaypointChoices(Rows(K), k) # {}
    \/ pc = "initB" /\ true_B = None /\ args.B0 = None /\ ~args.initialize_waypoint
    \/ pc = "initB" /\ true_B # None
    \/ pc = "greedy" /\ Len(greedy.centers) < k
    \/ pc = "greedy" /\ ~(Len(greedy.centers) < k)
    \/ pc = "initA"
    \/ pc = "loop" /\ OuterLoopRuns(it, args.n_iter) /\ true_A = None
    \/ pc = "loop" /\ OuterLoopRuns(it, args.n_iter) /\ true_A # None
    \/ pc = "loop" /\ ~OuterLoopRuns(it, args.n_iter)
    \/ pc = "updateA" /\ InnerLoopRuns(step.t, max_iter)
    \/ pc = "updateA" /\ ~InnerLoopRuns(step.t, max_iter)
    \/ pc = "afterA" /\ true_B = None
    \/ pc = "afterA" /\ true_B # None
    \/ pc = "updateB" /\ InnerLoopRuns(step.t, max_iter)
    \/ pc = "updateB" /\ ~InnerLoopRuns(step.t, max_iter)

\* C10: a well-formed fit with no true_A and no true_B never raises and
\* never stops before it is done (each step moves it on, and it is done when
\* the rounds are used up); it is done after exactly n_iter rounds; in round
\* it the A-step is given the B of round it - 1 (the initial B in round 0),
\* the B-step is given the A of round it, and each step has made exactly
\* max_iter inner iterations when it returns.
C10_Schedule ==
    (WellFormed /\ true_A = None /\ true_B = None)
        => /\ pc # "raised"
           /\ pc # "done" => CanStep
           /\ it <= args.n_iter /\ step.t <= max_iter
           /\ pc = "done" =>
                  /\ it = args.n_iter
                  /\ hist.aSteps = args.n_iter /\ hist.bSteps = args.n_iter
                  /\ hist.inner = 2 * args.n_iter * max_iter
           /\ pc = "updateA" =>
                  /\ it < args.n_iter
                  /\ hist.aSteps = it + 1 /\ hist.bSteps = it
                  /\ hist.readB = it - 1 /\ hist.madeB = it - 1
                  /\ hist.inner = 2 * it * max_iter + step.t
           /\ pc = "afterA" =>
                  /\ step.t = max_iter /\ hist.madeA = it
                  /\ hist.aSteps = it + 1 /\ hist.bSteps = it
           /\ pc = "updateB" =>
                  /\ hist.readA = it /\ hist.madeA = it
                  /\ hist.aSteps = it + 1 /\ hist.bSteps = it + 1
                  /\ hist.inner = (2 * it + 1) * max_iter + step.t
           /\ (pc = "loop" /\ it >= 1) =>
                  /\ step.t = max_iter /\ hist.madeB = it - 1
                  /\ hist.aSteps = it /\ hist.bSteps = it
                  /\ hist.inner = 2 * it * max_iter

C10_Witness ==
    /\ WellFormed /\ true_A = None /\ true_B = None
    /\ pc = "done" /\ hist.fits = 1 /\ args.n_iter = 2 /\ max_iter = 2 /\ hist.inner = 8

====
